---- MODULE Spec2Model ----
(***************************************************************************)
(* Whisper-TikTok: the subtitle alignment, phrase grouping and caption     *)
(* emission of whisper_tiktok/services/transcription_service.py, the       *)
(* video generation of app.py and the strategy list of the factory.        *)
(*                                                                         *)
(* Conventions.                                                            *)
(*  - A text is a sequence of one-character strings, so that stripping,    *)
(*    lower-casing, the punctuation test and the leading space are         *)
(*    computed character by character as the code computes them.           *)
(*  - A time is an integer number of milliseconds (the code holds float    *)
(*    seconds).  Every time of a transcript or of a word list is a         *)
(*    multiple of 125 ms, which a binary float holds exactly, so that the  *)
(*    float arithmetic of the code on these inputs is the integer          *)
(*    arithmetic written here.  The time formatters are also given times   *)
(*    that a float does not hold exactly; FloatSign and FloatMillis        *)
(*    compute what the float arithmetic of the code yields for them.       *)
(*  - Indices into Python lists are kept 0-based, as in the code: At(s, i) *)
(*    is s[i] of the code.                                                 *)
(***************************************************************************)
EXTENDS Integers, Sequences, FiniteSets, TLC

VARIABLES
    pc,              \* position of the run
    recognized,      \* the segments as the recognizer returned them (never assigned)
    segments,        \* transcription.segments: each segment's word list
    original_words,  \* the authoritative tokens (original_text.split())
    all_words,       \* the flattened word objects
    alignment,       \* list of (trans_idx, orig_idx) pairs
    aligned_count,   \* number of words rewritten
    log,             \* what the logger received
    word_timings,    \* list of {'word', 'start', 'end'} dicts
    phrases,         \* result of _group_words_into_phrases
    srt,             \* blocks written by _generate_srt
    ass,             \* lines written by _generate_ass
    exists,          \* which files exist: srt_file, ass_file, temp_audio_file.wav
    result,          \* how the call ended: "none", "returned" or the exception raised
    config,          \* what the user selected: videos, add_audio, upload_tiktok
    task,            \* the get_video coroutines gathered by generate_video
    running,         \* the coroutine the event loop is running (0: none)
    strategies,      \* the list _build_strategies returned
    seconds,         \* a time handed to the time formatters, in milliseconds
    srt_time,        \* what _format_srt_time returned for it
    ass_time,        \* what _format_ass_time returned for it
    durations,       \* the durations get_info reports to prepare_background (ms)
    ss               \* the start offset prepare_background chose (s)

\* The state of the transcription service.
serviceVars == <<pc, recognized, segments, original_words, all_words, alignment,
                 aligned_count, log, word_timings, phrases, srt, ass>>

\* The state of the video generation of app.py and of the strategy factory.
appVars == <<config, task, running, strategies>>

\* The state of a call of the time formatters.
timeVars == <<seconds, srt_time, ass_time>>

\* The state of a call of prepare_background.
prepareVars == <<durations, ss>>

vars == <<pc, recognized, segments, original_words, all_words, alignment, aligned_count,
          log, word_timings, phrases, srt, ass, exists, result, appVars, timeVars,
          prepareVars>>

(***************************************************************************)
(* Bounds of the model.                                                    *)
(***************************************************************************)
MaxRec == 3        \* recognized words in a transcript
MaxAuth == 3       \* authoritative tokens
MaxWords == 12     \* words handed to the phrase grouper
MaxSpecial == 2    \* words of a grouper input that differ from the plain word
MaxHours == 100    \* hours of a time handed to the time formatters
MaxVideos == 3     \* videos selected for one generate_video call
MaxEntries == 3    \* videos listed in video.json
MaxDuration == 6   \* seconds a background video or a narration lasts

(***************************************************************************)
(* Generic helpers.                                                        *)
(***************************************************************************)
At(s, i) == s[i + 1]

Max(S) == CHOOSE x \in S : \A y \in S : y <= x

Min(S) == CHOOSE x \in S : \A y \in S : x <= y

RECURSIVE Flat(_)
Flat(seqs) == IF seqs = <<>> THEN <<>> ELSE Head(seqs) \o Flat(Tail(seqs))

RECURSIVE SeqsUpTo(_, _)
SeqsUpTo(S, n) ==
    IF n = 0 THEN {<<>>}
    ELSE LET shorter == SeqsUpTo(S, n - 1)
         IN  shorter \cup {Append(s, x) : s \in {t \in shorter : Len(t) = n - 1}, x \in S}

(***************************************************************************)
(* Characters.  re.sub(r'[^\w]', '', w).lower() keeps letters, digits and  *)
(* the underscore and lower-cases them.                                    *)
(***************************************************************************)
UpperSeq == <<"A","B","C","D","E","F","G","H","I","J","K","L","M",
              "N","O","P","Q","R","S","T","U","V","W","X","Y","Z">>

LowerSeq == <<"a","b","c","d","e","f","g","h","i","j","k","l","m",
              "n","o","p","q","r","s","t","u","v","w","x","y","z">>

DigitSeq == <<"0","1","2","3","4","5","6","7","8","9">>

IsWordChar(c) ==
    \/ \E k \in 1..26 : c = UpperSeq[k] \/ c = LowerSeq[k]
    \/ \E k \in 1..10 : c = DigitSeq[k]
    \/ c = "_"

Lower(c) ==
    IF \E k \in 1..26 : c = UpperSeq[k]
    THEN LowerSeq[CHOOSE k \in 1..26 : c = UpperSeq[k]]
    ELSE c

Clean(t) ==
    LET kept == SelectSeq(t, IsWordChar)
    IN  [k \in 1..Len(kept) |-> Lower(kept[k])]

(***************************************************************************)
(* difflib.SequenceMatcher(None, a, b) as _align_with_original_text uses   *)
(* it (lines 164 and 170), for sequences shorter than 200 elements, where  *)
(* the automatic junk heuristic is off.                                    *)
(***************************************************************************)
RECURSIVE MatchLen(_, _, _, _, _, _)
MatchLen(a, b, i, j, ahi, bhi) ==
    IF i < ahi /\ j < bhi /\ At(a, i) = At(b, j)
    THEN 1 + MatchLen(a, b, i + 1, j + 1, ahi, bhi)
    ELSE 0

\* find_longest_match: the longest block a[i:i+k] = b[j:j+k] inside the two
\* ranges; of the longest, the one starting earliest in a; of those, the one
\* starting earliest in b; (alo, blo, 0) when nothing matches.
FindLongestMatch(a, b, alo, ahi, blo, bhi) ==
    LET cands == (alo..(ahi - 1)) \X (blo..(bhi - 1))
        size(c) == MatchLen(a, b, c[1], c[2], ahi, bhi)
        best == IF cands = {} THEN 0 ELSE Max({size(c) : c \in cands})
    IN  IF best = 0 THEN [i |-> alo, j |-> blo, k |-> 0]
        ELSE LET longest == {c \in cands : size(c) = best}
                 bi == Min({c[1] : c \in longest})
                 bj == Min({c[2] : c \in {d \in longest : d[1] = bi}})
             IN  [i |-> bi, j |-> bj, k |-> best]

\* get_matching_blocks, the recursion: the longest match, then the longest
\* matches to its left and to its right, in increasing order.
RECURSIVE MatchingBlocksIn(_, _, _, _, _, _)
MatchingBlocksIn(a, b, alo, ahi, blo, bhi) ==
    LET m == FindLongestMatch(a, b, alo, ahi, blo, bhi)
    IN  IF m.k = 0 THEN <<>>
        ELSE (IF alo < m.i /\ blo < m.j
              THEN MatchingBlocksIn(a, b, alo, m.i, blo, m.j) ELSE <<>>)
             \o <<m>> \o
             (IF m.i + m.k < ahi /\ m.j + m.k < bhi
              THEN MatchingBlocksIn(a, b, m.i + m.k, ahi, m.j + m.k, bhi) ELSE <<>>)

\* get_matching_blocks, the collapse of adjacent blocks.
RECURSIVE CollapseBlocks(_, _)
CollapseBlocks(cur, rest) ==
    IF rest = <<>> THEN (IF cur.k > 0 THEN <<cur>> ELSE <<>>)
    ELSE LET nxt == Head(rest)
         IN  IF cur.i + cur.k = nxt.i /\ cur.j + cur.k = nxt.j
             THEN CollapseBlocks([cur EXCEPT !.k = cur.k + nxt.k], Tail(rest))
             ELSE (IF cur.k > 0 THEN <<cur>> ELSE <<>>)
                  \o CollapseBlocks(nxt, Tail(rest))

\* get_matching_blocks: the collapsed blocks and the sentinel (la, lb, 0).
MatchingBlocks(a, b) ==
    CollapseBlocks([i |-> 0, j |-> 0, k |-> 0],
                   MatchingBlocksIn(a, b, 0, Len(a), 0, Len(b)))
    \o <<[i |-> Len(a), j |-> Len(b), k |-> 0]>>

\* get_opcodes: what lies between two matching blocks is a replace, a delete
\* or an insert run; each block of positive size is an equal run.
RECURSIVE OpcodesFrom(_, _, _)
OpcodesFrom(blocks, i, j) ==
    IF blocks = <<>> THEN <<>>
    ELSE LET m == Head(blocks)
             tag == IF i < m.i /\ j < m.j THEN "replace"
                    ELSE IF i < m.i THEN "delete"
                    ELSE IF j < m.j THEN "insert"
                    ELSE ""
             gap == IF tag # ""
                    THEN <<[tag |-> tag, i1 |-> i, i2 |-> m.i, j1 |-> j, j2 |-> m.j]>>
                    ELSE <<>>
             eq == IF m.k > 0
                   THEN <<[tag |-> "equal", i1 |-> m.i, i2 |-> m.i + m.k,
                           j1 |-> m.j, j2 |-> m.j + m.k]>>
                   ELSE <<>>
         IN  gap \o eq \o OpcodesFrom(Tail(blocks), m.i + m.k, m.j + m.k)

get_opcodes(a, b) == OpcodesFrom(MatchingBlocks(a, b), 0, 0)

(***************************************************************************)
(* _align_with_original_text.                                              *)
(***************************************************************************)
\* Mutant: the pairs of a run taken from opposite ends.
ZipRangesCrossed(i1, i2, j1, j2) ==
    LET n == IF i2 - i1 < j2 - j1 THEN i2 - i1 ELSE j2 - j1
    IN  [k \in 1..n |-> <<i1 + k - 1, j1 + n - k>>]

\* Mutant: the authoritative index one too far.
ZipRangesOffByOne(i1, i2, j1, j2) ==
    LET n == IF i2 - i1 < j2 - j1 THEN i2 - i1 ELSE j2 - j1
    IN  [k \in 1..n |-> <<i1 + k - 1, j1 + k>>]

\* zip(range(i1, i2), range(j1, j2)): pairs up to the shorter range.
ZipRanges(i1, i2, j1, j2) ==
    LET n == IF i2 - i1 < j2 - j1 THEN i2 - i1 ELSE j2 - j1
    IN  [k \in 1..n |-> <<i1 + k - 1, j1 + k - 1>>]

\* The pairs of one run that are appended: those whose transcribed index is
\* not in used_trans_indices.
RECURSIVE AppendUnused(_, _)
AppendUnused(acc, pairs) ==
    IF pairs = <<>> THEN acc
    ELSE IF \E k \in 1..Len(acc) : acc[k][1] = Head(pairs)[1]
         THEN AppendUnused(acc, Tail(pairs))
         ELSE AppendUnused(Append(acc, Head(pairs)), Tail(pairs))

\* The loop over the opcodes (lines 170-184).
RECURSIVE BuildAlignment(_, _)
BuildAlignment(acc, ops) ==
    IF ops = <<>> THEN acc
    ELSE LET op == Head(ops)
         IN  IF op.tag = "equal" \/ op.tag = "replace"
             THEN BuildAlignment(
                      AppendUnused(acc, ZipRanges(op.i1, op.i2, op.j1, op.j2)),
                      Tail(ops))
             ELSE BuildAlignment(acc, Tail(ops))

\* transcribed_clean and original_clean (lines 161-162).
CleanAll(texts) == [k \in 1..Len(texts) |-> Clean(texts[k])]

WordTexts(words) == [k \in 1..Len(words) |-> words[k].word]

ComputeAlignment(words, orig) ==
    BuildAlignment(<<>>, get_opcodes(CleanAll(WordTexts(words)), CleanAll(orig)))

\* A word object keeps its identity (id: its position in the flattened list)
\* next to its fields.  The word type belongs to the transcription library:
\* `w in segment.words` and `all_words.index(w)` compare with ==, which is
\* identity for a plain class and field equality for a dataclass-like word
\* type; the model takes both outcomes.
WordEq(byValue, w1, w2) ==
    IF byValue
    THEN w1.word = w2.word /\ w1.start = w2.start /\ w1.end = w2.end
    ELSE w1.id = w2.id

\* Lines 149-156: the words of the segments that have words, in order.
FlattenSegments(segs) == Flat(segs)

\* Mutant: the separator also in front of the first word.
RewrittenTextAlwaysSpace(token, count) == <<" ">> \o token

\* Lines 191-194: the text a word receives.
RewrittenText(token, count) ==
    IF count = 0 THEN token ELSE <<" ">> \o token

\* Mutant: the rewrite builds a new word that loses the end time.
RewriteWordResetsTiming(w, token, count) ==
    [id |-> w.id, word |-> RewrittenText(token, count), start |-> w.start, end |-> w.start]

\* Lines 192/194: only the word attribute is assigned.
RewriteWord(w, token, count) == [w EXCEPT !.word = RewrittenText(token, count)]

\* Lines 187-195: the loop applying the alignment.
RECURSIVE ApplyAlignment(_, _, _, _)
ApplyAlignment(words, pairs, count, orig) ==
    IF pairs = <<>> THEN [words |-> words, count |-> count]
    ELSE LET ti == Head(pairs)[1]
             oi == Head(pairs)[2]
         IN  IF ti < Len(words) /\ oi < Len(orig)
             THEN ApplyAlignment(
                      [words EXCEPT ![ti + 1] = RewriteWord(@, At(orig, oi), count)],
                      Tail(pairs), count + 1, orig)
             ELSE ApplyAlignment(words, Tail(pairs), count, orig)

\* Line 198.
AlignedIndices(pairs) == {pairs[k][1] : k \in 1..Len(pairs)}

\* w in segment.words
Contains(byValue, ws, w) == \E k \in 1..Len(ws) : WordEq(byValue, ws[k], w)

\* all_words.index(w): the first position holding a word equal to w.
IndexOf(byValue, ws, w) == Min({k \in 1..Len(ws) : WordEq(byValue, ws[k], w)}) - 1

\* Lines 201-202: the list comprehension of one segment.
KeepWord(byValue, words, segWords, aligned, w) ==
    /\ Contains(byValue, segWords, w)
    /\ IndexOf(byValue, words, w) \in aligned

PruneSegment(byValue, words, segWords, aligned) ==
    IF segWords = <<>> THEN segWords
    ELSE SelectSeq(words, LAMBDA w : KeepWord(byValue, words, segWords, aligned, w))

\* The objects of a segment are the objects of all_words: after the rewrite a
\* segment holds the rewritten words.
SegmentNow(segWords, words) == [k \in 1..Len(segWords) |-> At(words, segWords[k].id)]

\* Lines 199-202.
PruneSegments(byValue, segs, words, aligned) ==
    [s \in 1..Len(segs) |->
        PruneSegment(byValue, words, SegmentNow(segs[s], words), aligned)]

\* Mutant: the warning is also given when nothing is missing.
MissingWarningAlways(count, orig) ==
    <<[level |-> "warning", missing |-> Len(orig) - count]>>

\* Lines 205-207.
MissingWarning(count, orig) ==
    IF count < Len(orig)
    THEN <<[level |-> "warning", missing |-> Len(orig) - count]>>
    ELSE <<>>

\* Everything the method logs: the debug message of line 158, the info
\* message of line 204 and the warning of lines 205-207.
LogEntries(words, count, orig) ==
    <<[level |-> "debug", original |-> Len(orig), transcribed |-> Len(words)],
      [level |-> "info", aligned |-> count, original |-> Len(orig)]>>
    \o MissingWarning(count, orig)

(***************************************************************************)
(* _group_words_into_phrases.                                              *)
(***************************************************************************)
PunctuationMarks == {".", ",", "!", "?", ";", ":"}

MaxGapMs == 1000

MaxPhraseWords == 10

\* any(punct in prev_word for punct in [...])
HasPunctuation(text) == \E k \in 1..Len(text) : text[k] \in PunctuationMarks

\* Lines 275-280 and 299-304: a phrase opened by one word.
NewPhrase(word_data) ==
    [start |-> word_data.start, end |-> word_data.end,
     words |-> <<word_data>>, text |-> word_data.word]

\* Mutant: the cap tested one word too late.
ShouldBreakCapOffByOne(current_phrase, word_data) ==
    LET prev_word == current_phrase.words[Len(current_phrase.words)].word
        time_gap == word_data.start - current_phrase.end
    IN  \/ HasPunctuation(prev_word)
        \/ time_gap > MaxGapMs
        \/ Len(current_phrase.words) > MaxPhraseWords

\* Mutant: a gap of exactly one second breaks too.
ShouldBreakGapInclusive(current_phrase, word_data) ==
    LET prev_word == current_phrase.words[Len(current_phrase.words)].word
        time_gap == word_data.start - current_phrase.end
    IN  \/ HasPunctuation(prev_word)
        \/ time_gap >= MaxGapMs
        \/ Len(current_phrase.words) >= MaxPhraseWords

\* Lines 288-295.
ShouldBreak(current_phrase, word_data) ==
    LET prev_word == current_phrase.words[Len(current_phrase.words)].word
        time_gap == word_data.start - current_phrase.end
    IN  \/ HasPunctuation(prev_word)
        \/ time_gap > MaxGapMs
        \/ Len(current_phrase.words) >= MaxPhraseWords

\* Lines 306-308.
ExtendPhrase(current_phrase, word_data) ==
    [current_phrase EXCEPT
        !.end = word_data.end,
        !.words = Append(@, word_data),
        !.text = @ \o <<" ">> \o word_data.word]

\* Mutant: the phrase still open after the last word is not appended.
RECURSIVE GroupLoopNoLast(_, _, _, _)
GroupLoopNoLast(wt, i, current_phrase, done) ==
    IF i >= Len(wt) THEN done
    ELSE IF ShouldBreak(current_phrase, At(wt, i))
         THEN GroupLoopNoLast(wt, i + 1, NewPhrase(At(wt, i)), Append(done, current_phrase))
         ELSE GroupLoopNoLast(wt, i + 1, ExtendPhrase(current_phrase, At(wt, i)), done)

\* Lines 282-313: the loop from word i on, and the last phrase.
RECURSIVE GroupLoop(_, _, _, _)
GroupLoop(wt, i, current_phrase, done) ==
    IF i >= Len(wt) THEN Append(done, current_phrase)
    ELSE IF ShouldBreak(current_phrase, At(wt, i))
         THEN GroupLoop(wt, i + 1, NewPhrase(At(wt, i)), Append(done, current_phrase))
         ELSE GroupLoop(wt, i + 1, ExtendPhrase(current_phrase, At(wt, i)), done)

\* Mutant: an empty input yields one phrase without words.
GroupWordsIntoPhrasesBlankPhrase(wt) ==
    IF wt = <<>> THEN <<[start |-> 0, end |-> 0, words |-> <<>>, text |-> <<>>]>>
    ELSE GroupLoop(wt, 1, NewPhrase(At(wt, 0)), <<>>)

\* Lines 271-313.
GroupWordsIntoPhrases(wt) ==
    IF wt = <<>> THEN <<>> ELSE GroupLoop(wt, 1, NewPhrase(At(wt, 0)), <<>>)

(***************************************************************************)
(* Time formats.                                                           *)
(***************************************************************************)
RECURSIVE Digits(_)
Digits(n) == IF n < 10 THEN <<DigitSeq[n + 1]>>
             ELSE Append(Digits(n \div 10), DigitSeq[(n % 10) + 1])

\* {n:0wd}: at least w digits, zeros in front.
RECURSIVE ZeroPad(_, _)
ZeroPad(t, w) == IF Len(t) >= w THEN t ELSE ZeroPad(<<"0">> \o t, w)

RECURSIVE Pow2(_)
Pow2(n) == IF n <= 0 THEN 1 ELSE 2 * Pow2(n - 1)

\* 2^n modulo 1000.
RECURSIVE Pow2Mod1000(_)
Pow2Mod1000(n) == IF n <= 0 THEN 1 ELSE (2 * Pow2Mod1000(n - 1)) % 1000

\* floor(log2(ms / 1000)) for ms >= 1: the binary exponent of the float that
\* holds ms milliseconds as seconds.
RECURSIVE FloatExponent(_, _)
FloatExponent(ms, L) ==
    IF ms >= 1000
    THEN IF 1000 * Pow2(L + 1) <= ms THEN FloatExponent(ms, L + 1) ELSE L
    ELSE IF ms * Pow2(-L) < 1000 THEN FloatExponent(ms, L - 1) ELSE L

\* The remainder, in 0..999, that decides how ms / 1000 is rounded to 53 bits:
\* ms * 2^(52 - exponent) modulo 1000.
FloatRemainder(ms) ==
    ((ms % 1000) * Pow2Mod1000(52 - FloatExponent(ms, 0))) % 1000

\* The time the code holds is the float nearest to ms / 1000: that float is
\* the decimal itself (0) when ms is a multiple of 125, and otherwise lies
\* below it (-1) or above it (1).
FloatSign(ms) ==
    IF ms % 125 = 0 THEN 0
    ELSE IF FloatRemainder(ms) > 500 THEN 1 ELSE -1

RECURSIVE FloorLog2(_)
FloorLog2(n) == IF n < 2 THEN 0 ELSE 1 + FloorLog2(n \div 2)

\* int((seconds % 1) * 1000) in float arithmetic (line 320).  seconds % 1 is
\* exact; when the float lies below the decimal the product lies below the
\* whole number m of milliseconds and is truncated to m - 1, unless the
\* multiplication rounds it back to m.
FloatMillis(ms) ==
    LET m == ms % 1000
    IN  IF FloatSign(ms) >= 0 THEN m
        ELSE LET j == FloorLog2(m)
                 x == (IF m = Pow2(j) THEN j - 2 ELSE j - 1) - FloatExponent(ms, 0)
             IN  IF x >= 0 /\ FloatRemainder(ms) <= Pow2(x) THEN m ELSE m - 1

\* _format_srt_time: HH:MM:SS,mmm, every field truncated.  The floor
\* divisions and remainders of lines 317-319 are exact on floats; the
\* milliseconds are those of line 320.
FormatSrtTime(ms) ==
    LET hours == ms \div 3600000
        minutes == (ms % 3600000) \div 60000
        secs == (ms % 60000) \div 1000
        millis == FloatMillis(ms)
    IN  ZeroPad(Digits(hours), 2) \o <<":">> \o ZeroPad(Digits(minutes), 2) \o <<":">>
        \o ZeroPad(Digits(secs), 2) \o <<",">> \o ZeroPad(Digits(millis), 3)

\* The nearest integer to n / d, a tie going to the even one.
RoundHalfEven(n, d) ==
    LET q == n \div d
        r == n % d
    IN  IF 2 * r < d THEN q
        ELSE IF 2 * r > d THEN q + 1
        ELSE IF q % 2 = 0 THEN q ELSE q + 1

\* Mutant: the hundredths are cut off, not rounded.
SecondsCsTruncated(ms) == (ms % 60000) \div 10

\* {secs:05.2f} of secs = seconds % 60 (lines 327-328), in hundredths: the
\* float is rounded to two decimals by its exact value, so a decimal that
\* ends in 5 thousandths goes down when the float lies below it and up when
\* the float lies above it, and to the even hundredth when the float is exact.
SecondsCs(ms) ==
    LET x == ms % 60000
    IN  IF x % 10 # 5 \/ FloatSign(ms) = 0 THEN RoundHalfEven(x, 10)
        ELSE IF FloatSign(ms) > 0 THEN (x \div 10) + 1 ELSE x \div 10

\* _format_ass_time: H:MM:SS.cc, the seconds field being seconds % 60
\* formatted with {:05.2f}, which rounds to two decimals.
FormatAssTime(ms) ==
    LET hours == ms \div 3600000
        minutes == (ms % 3600000) \div 60000
        cs == SecondsCs(ms)
    IN  Digits(hours) \o <<":">> \o ZeroPad(Digits(minutes), 2) \o <<":">>
        \o ZeroPad(Digits(cs \div 100), 2) \o <<".">> \o ZeroPad(Digits(cs % 100), 2)

(***************************************************************************)
(* _generate_srt and _generate_ass.                                        *)
(***************************************************************************)
\* Lines 214-219: one block per entry of word_timings, numbered from 1.
SrtBlock(idx, timing) ==
    [index |-> idx,
     times |-> FormatSrtTime(timing.start) \o <<" ", "-", "-", ">", " ">>
               \o FormatSrtTime(timing.end),
     text |-> timing.word]

GenerateSrtBlocks(wt) == [k \in 1..Len(wt) |-> SrtBlock(k, wt[k])]

\* Line 264: int((end - start) * 100).
DurationCs(word_data) == ((word_data.end - word_data.start) * 100) \div 1000

\* Lines 262-265: the karaoke tags of a phrase, one per member word.
KaraokeTags(phrase) ==
    [k \in 1..Len(phrase.words) |->
        [k |-> DurationCs(phrase.words[k]), word |-> phrase.words[k].word]]

\* Lines 236-251: the header, with the default style options.
AssHeader ==
    <<[kind |-> "text", text |-> "[Script Info]"],
      [kind |-> "text", text |-> "ScriptType: v4.00+"],
      [kind |-> "text", text |-> "PlayResX: 384"],
      [kind |-> "text", text |-> "PlayResY: 288"],
      [kind |-> "text", text |-> "ScaledBorderAndShadow: yes"],
      [kind |-> "text", text |-> "[V4+ Styles]"],
      [kind |-> "text", text |-> "Format: Name, Fontname, Fontsize, ..."],
      [kind |-> "style", font |-> "Impact", size |-> "28", colour |-> "&HFFFFFF"],
      [kind |-> "text", text |-> "[Events]"],
      [kind |-> "text", text |-> "Format: Layer, Start, End, Style, Name, ..."]>>

\* Mutant: the line ends where the phrase's first word ends.
DialogueLineFirstWordEnd(idx, phrase) ==
    [kind |-> "dialogue", layer |-> idx,
     start |-> FormatAssTime(phrase.start), end |-> FormatAssTime(phrase.words[1].end),
     karaoke |-> KaraokeTags(phrase)]

\* Lines 256-267: the Dialogue line of the idx-th phrase (idx from 0).
DialogueLine(idx, phrase) ==
    [kind |-> "dialogue", layer |-> idx,
     start |-> FormatAssTime(phrase.start), end |-> FormatAssTime(phrase.end),
     karaoke |-> KaraokeTags(phrase)]

GenerateAssLines(wt) ==
    LET ps == GroupWordsIntoPhrases(wt)
    IN  AssHeader \o [k \in 1..Len(ps) |-> DialogueLine(k - 1, ps[k])]

(***************************************************************************)
(* Inputs.                                                                 *)
(***************************************************************************)
\* Texts the recognizer returns and tokens of the authoritative text.
RecTexts == {<<" ", "h", "i">>, <<"g", "o">>, <<"u", "h">>}

AuthTokens == {<<"H", "i", ".">>, <<"g", "o">>}

RecDurations == {0, 500}

\* Word objects for the texts and durations given, each starting where the
\* one before it ends.
RECURSIVE TimedFrom(_, _, _, _)
TimedFrom(texts, durs, k, t) ==
    IF k > Len(texts) THEN <<>>
    ELSE <<[id |-> k - 1, word |-> texts[k], start |-> t, end |-> t + durs[k]]>>
         \o TimedFrom(texts, durs, k + 1, t + durs[k])

\* The kinds of word of a grouper input: its text, the gap before it and its
\* duration.
PlainKind == [word |-> <<"g", "o">>, gap |-> 0, dur |-> 500]

SpecialKinds ==
    {[word |-> <<"H", "i", ".">>, gap |-> 0, dur |-> 500],
     [word |-> <<"g", "o">>, gap |-> 1000, dur |-> 500],
     [word |-> <<"g", "o">>, gap |-> 1500, dur |-> 500],
     [word |-> <<"g", "o">>, gap |-> 0, dur |-> 375]}

RECURSIVE TimingsFrom(_, _, _)
TimingsFrom(kinds, k, t) ==
    IF k > Len(kinds) THEN <<>>
    ELSE LET st == t + kinds[k].gap
         IN  <<[word |-> kinds[k].word, start |-> st, end |-> st + kinds[k].dur]>>
             \o TimingsFrom(kinds, k + 1, st + kinds[k].dur)

\* The word kinds of an input of n words whose words at the positions of sp
\* are the special ones given by sp.
KindSeq(n, sp) == [k \in 1..n |-> IF k \in DOMAIN sp THEN sp[k] ELSE PlainKind]

\* The placements of at most MaxSpecial special words among n words.
SpecialPlacements(n) ==
    UNION {[S -> SpecialKinds] :
             S \in {T \in SUBSET (1..n) : Cardinality(T) <= MaxSpecial}}

\* word objects as the dicts the grouper and the emitters take
AsTiming(w) == [word |-> w.word, start |-> w.start, end |-> w.end]

(***************************************************************************)
(* The state machine.                                                      *)
(***************************************************************************)
NoOutputs ==
    /\ all_words = <<>>
    /\ alignment = <<>>
    /\ aligned_count = 0
    /\ log = <<>>
    /\ phrases = <<>>
    /\ srt = <<>>
    /\ ass = <<>>
    /\ exists = [srt_file |-> FALSE, ass_file |-> FALSE, temp_audio |-> FALSE]
    /\ result = "none"

\* No video generation is going on.
AppIdle ==
    /\ config = [video_json |-> <<>>, video_num |-> <<>>, add_audio |-> FALSE,
                 upload_tiktok |-> FALSE]
    /\ task = <<>>
    /\ running = 0
    /\ strategies = <<>>

\* No time is being formatted.
TimeIdle ==
    /\ seconds = 0
    /\ srt_time = <<>>
    /\ ass_time = <<>>

\* No background is being prepared.
PrepareIdle ==
    /\ durations = [video |-> 0, audio |-> 0]
    /\ ss = 0

\* A transcript of two segments (either may be empty), whose words all last
\* half a second or all have no length, and an authoritative text.
Init ==
    /\ pc = "transcribed"
    /\ \E texts \in SeqsUpTo(RecTexts, MaxRec) :
         \E dur \in RecDurations :
           \E cut \in 0..Len(texts) :
             \E ws \in {TimedFrom(texts, [k \in 1..Len(texts) |-> dur], 1, 0)} :
                 segments = <<SubSeq(ws, 1, cut), SubSeq(ws, cut + 1, Len(ws))>>
    /\ recognized = segments
    /\ original_words \in SeqsUpTo(AuthTokens, MaxAuth)
    /\ word_timings = <<>>
    /\ NoOutputs
    /\ AppIdle
    /\ TimeIdle
    /\ PrepareIdle

\* A list of word timings handed to the grouper and the emitters.
InitGroup ==
    /\ pc = "timed"
    /\ segments = <<>>
    /\ recognized = <<>>
    /\ original_words = <<>>
    /\ \E n \in 0..MaxWords : \E sp \in SpecialPlacements(n) :
         \E kinds \in {KindSeq(n, sp)} :
             word_timings = TimingsFrom(kinds, 1, 0)
    /\ NoOutputs
    /\ AppIdle
    /\ TimeIdle
    /\ PrepareIdle

\* _align_with_original_text (lines 131-209).  Each intermediate result of the
\* method (the flattened list, the alignment, the rewritten words) is bound
\* once; byValue is the way the word type compares.
Align ==
    /\ pc = "transcribed"
    /\ \E flat \in {FlattenSegments(segments)} :
       \E pairs \in {ComputeAlignment(flat, original_words)} :
       \E applied \in {ApplyAlignment(flat, pairs, 0, original_words)} :
       \E byValue \in BOOLEAN :
           /\ all_words' = applied.words
           /\ alignment' = pairs
           /\ aligned_count' = applied.count
           /\ segments' = PruneSegments(byValue, segments, applied.words,
                                        AlignedIndices(pairs))
           /\ log' = LogEntries(flat, applied.count, original_words)
    /\ pc' = "aligned"
    /\ UNCHANGED <<recognized, original_words, word_timings, phrases, srt, ass>>
    /\ UNCHANGED <<exists, result, appVars, timeVars, prepareVars>>

\* The corrected words of the transcript, in order, as the timed words the
\* grouper and the emitters consume.
ToWordTimings ==
    /\ pc = "aligned"
    /\ word_timings' = [k \in 1..Len(Flat(segments)) |-> AsTiming(Flat(segments)[k])]
    /\ pc' = "timed"
    /\ UNCHANGED <<recognized, segments, original_words, all_words, alignment, aligned_count,
                   log, phrases, srt, ass>>
    /\ UNCHANGED <<exists, result, appVars, timeVars, prepareVars>>

\* _group_words_into_phrases (lines 269-313).
GroupWords ==
    /\ pc = "timed"
    /\ phrases' = GroupWordsIntoPhrases(word_timings)
    /\ pc' = "grouped"
    /\ UNCHANGED <<recognized, segments, original_words, all_words, alignment, aligned_count,
                   log, word_timings, srt, ass>>
    /\ UNCHANGED <<exists, result, appVars, timeVars, prepareVars>>

\* _generate_srt (lines 211-219).
GenerateSrt ==
    /\ pc = "grouped"
    /\ srt' = GenerateSrtBlocks(word_timings)
    /\ pc' = "srt_written"
    /\ UNCHANGED <<recognized, segments, original_words, all_words, alignment, aligned_count,
                   log, word_timings, phrases, ass>>
    /\ exists' = [exists EXCEPT !.srt_file = TRUE]
    /\ UNCHANGED <<result, appVars, timeVars, prepareVars>>

\* _generate_ass (lines 221-267).
GenerateAss ==
    /\ pc = "srt_written"
    /\ ass' = GenerateAssLines(word_timings)
    /\ pc' = "done"
    /\ UNCHANGED <<recognized, segments, original_words, all_words, alignment, aligned_count,
                   log, word_timings, phrases, srt>>
    /\ exists' = [exists EXCEPT !.ass_file = TRUE]
    /\ UNCHANGED <<result, appVars, timeVars, prepareVars>>

Next == Align \/ ToWordTimings \/ GroupWords \/ GenerateSrt \/ GenerateAss

Spec == Init /\ [][Next]_vars

NextGroup == GroupWords \/ GenerateSrt \/ GenerateAss

SpecGroup == InitGroup /\ [][NextGroup]_vars

(***************************************************************************)
(* generate_from_text.                                                     *)
(***************************************************************************)
\* Lines 51-58: the debug message and the warning.
FromTextLog(wt) ==
    <<[level |-> "debug", word_timings |-> Len(wt)],
      [level |-> "warning", text |-> "Word timings not available from TTS"]>>

\* Lines 62-65: the method ends in this exception.
FromTextOutcome == "NotImplementedError"

\* Mutant: the caption file is opened for writing before the failure.
FilesAfterFromTextCreated(files) == [files EXCEPT !.srt_file = TRUE]

\* Lines 51-65: no file is opened, written or removed.
FilesAfterFromText(files) == files

\* What a caption file of an earlier run holds.
OldSrt == GenerateSrtBlocks(TimingsFrom(<<PlainKind>>, 1, 0))

OldAss == GenerateAssLines(TimingsFrom(<<PlainKind>>, 1, 0))

\* generate_from_text is called with a text, word timings and the two output
\* paths, each of which may name a file of an earlier run.
InitFromText ==
    /\ pc = "from_text"
    /\ segments = <<>>
    /\ recognized = <<>>
    /\ original_words \in SeqsUpTo(AuthTokens, MaxAuth)
    /\ \E n \in 0..MaxWords : word_timings = TimingsFrom(KindSeq(n, <<>>), 1, 0)
    /\ all_words = <<>>
    /\ alignment = <<>>
    /\ aligned_count = 0
    /\ log = <<>>
    /\ phrases = <<>>
    /\ \E had_srt, had_ass \in BOOLEAN :
         /\ exists = [srt_file |-> had_srt, ass_file |-> had_ass, temp_audio |-> FALSE]
         /\ srt = (IF had_srt THEN OldSrt ELSE <<>>)
         /\ ass = (IF had_ass THEN OldAss ELSE <<>>)
    /\ result = "none"
    /\ AppIdle
    /\ TimeIdle
    /\ PrepareIdle

\* generate_from_text (lines 42-65).
GenerateFromText ==
    /\ pc = "from_text"
    /\ log' = FromTextLog(word_timings)
    /\ exists' = FilesAfterFromText(exists)
    /\ result' = FromTextOutcome
    /\ pc' = "raised"
    /\ UNCHANGED <<recognized, segments, original_words, all_words, alignment, aligned_count,
                   word_timings, phrases, srt, ass, appVars, timeVars, prepareVars>>

SpecFromText == InitFromText /\ [][GenerateFromText]_vars

\* C14: generate_from_text always ends in an exception raised to the caller:
\* it never returns normally, it is not run again after the failure, and the
\* call leaves both caption files as they were (not created, not modified).
C14_FromTextFails ==
    /\ [](result # "returned")
    /\ [][pc = "from_text" =>
             /\ pc' = "raised"
             /\ result' = "NotImplementedError"
             /\ exists' = exists
             /\ srt' = srt
             /\ ass' = ass]_vars
    /\ [][pc = "raised" => pc' = "raised" /\ log' = log]_vars

\* The call has failed with one caption file present from an earlier run and
\* the other absent.
C14_Witness ==
    /\ pc = "raised"
    /\ result = "NotImplementedError"
    /\ exists.srt_file /\ ~exists.ass_file
    /\ srt = OldSrt /\ ass = <<>>
    /\ Len(word_timings) >= 2
    /\ Len(log) = 2

(***************************************************************************)
(* The time formatters on their own.                                       *)
(***************************************************************************)
\* Times in milliseconds, composed of hours, minutes, seconds and
\* milliseconds at and next to the ends of each field.
HourValues == {0, 1, 99} \cup {MaxHours}

MinuteValues == {0, 1, 2, 59}

SecondValues == {0, 1, 5, 59}

MilliValues == {0, 4, 5, 6, 15, 19, 125, 375, 500, 994, 995, 996, 999}

TimeInputs ==
    {h * 3600000 + m * 60000 + sec * 1000 + ms :
        h \in HourValues, m \in MinuteValues, sec \in SecondValues, ms \in MilliValues}

InitTime ==
    /\ pc = "time"
    /\ segments = <<>>
    /\ recognized = <<>>
    /\ original_words = <<>>
    /\ word_timings = <<>>
    /\ NoOutputs
    /\ AppIdle
    /\ seconds \in TimeInputs
    /\ srt_time = <<>>
    /\ ass_time = <<>>
    /\ PrepareIdle

\* _format_srt_time (lines 315-321).
FormatSrt ==
    /\ pc = "time"
    /\ srt_time = <<>>
    /\ srt_time' = FormatSrtTime(seconds)
    /\ UNCHANGED <<pc, recognized, segments, original_words, all_words, alignment,
                   aligned_count, log, word_timings, phrases, srt, ass, exists, result,
                   appVars, seconds, ass_time, prepareVars>>

\* _format_ass_time (lines 323-328).
FormatAss ==
    /\ pc = "time"
    /\ ass_time = <<>>
    /\ ass_time' = FormatAssTime(seconds)
    /\ UNCHANGED <<pc, recognized, segments, original_words, all_words, alignment,
                   aligned_count, log, word_timings, phrases, srt, ass, exists, result,
                   appVars, seconds, srt_time, prepareVars>>

NextTime == FormatSrt \/ FormatAss

SpecTime == InitTime /\ [][NextTime]_vars

\* The value of a digit character.
DigitValue(c) == CHOOSE d \in 0..9 : DigitSeq[d + 1] = c

\* C15: for a time of 0 to 359999 seconds given in milliseconds,
\* _format_srt_time returns HH:MM:SS,mmm: the hours on 2 digits, the minutes
\* below 60 on 2 digits, the seconds below 60 on 2 digits and the
\* milliseconds of the time on 3 digits, 12 characters in all.
C15_SrtTimeFields ==
    (srt_time # <<>> /\ seconds <= 359999999) =>
        /\ Len(srt_time) = 12
        /\ srt_time =
               ZeroPad(Digits(seconds \div 3600000), 2) \o <<":">>
               \o ZeroPad(Digits((seconds % 3600000) \div 60000), 2) \o <<":">>
               \o ZeroPad(Digits((seconds % 60000) \div 1000), 2) \o <<",">>
               \o ZeroPad(Digits(seconds % 1000), 3)

\* The seconds field SS.cc of a styled-caption time, in hundredths.
AssSecondsField(t) ==
    LET n == Len(t)
    IN  1000 * DigitValue(t[n - 4]) + 100 * DigitValue(t[n - 3])
        + 10 * DigitValue(t[n - 1]) + DigitValue(t[n])

\* C16: for a time of zero or more, _format_ass_time returns H:MM:SS.cc: the
\* hours without padding, the minutes on 2 digits and the seconds modulo 60
\* rounded, not cut, to the nearest hundredth and padded to width 5;
\* 3725.5 s gives 1:02:05.50 and 0 s gives 0:00:00.00.
C16_AssTimeFields ==
    ass_time # <<>> =>
        /\ \E cs \in 0..6000 :
              /\ 10 * cs - (seconds % 60000) \in -5..5
              /\ ass_time =
                     Digits(seconds \div 3600000) \o <<":">>
                     \o ZeroPad(Digits((seconds % 3600000) \div 60000), 2) \o <<":">>
                     \o ZeroPad(Digits(cs \div 100), 2) \o <<".">>
                     \o ZeroPad(Digits(cs % 100), 2)
        /\ seconds = 3725500 => ass_time = <<"1", ":", "0", "2", ":", "0", "5", ".", "5", "0">>
        /\ seconds = 0 => ass_time = <<"0", ":", "0", "0", ":", "0", "0", ".", "0", "0">>

\* 1 h 2 min 5.996 s: the hundredths are rounded up to 6.00, where cutting
\* gives 5.99.
C16_Witness ==
    /\ seconds = 3725996
    /\ ass_time = <<"1", ":", "0", "2", ":", "0", "6", ".", "0", "0">>

\* C20: the seconds field of the time _format_ass_time returns is below 60
\* (00.00 to 59.99): a carry of the rounding goes into the minutes and the
\* hours, and the time written is within 0.005 s of the time given.
C20_AssSecondsBelow60 ==
    ass_time # <<>> =>
        /\ AssSecondsField(ass_time) < 6000
        /\ \E total \in {seconds \div 10, (seconds \div 10) + 1} :
              /\ 10 * total - seconds \in -5..5
              /\ ass_time =
                     Digits(total \div 360000) \o <<":">>
                     \o ZeroPad(Digits((total % 360000) \div 6000), 2) \o <<":">>
                     \o ZeroPad(Digits((total % 6000) \div 100), 2) \o <<".">>
                     \o ZeroPad(Digits(total % 100), 2)

(***************************************************************************)
(* generate_video of app.py and _build_strategies of the factory.          *)
(***************************************************************************)
\* Mutant: the upload strategy is put in front.
BuildStrategiesUploadFirst(cfg) ==
    (IF cfg.upload_tiktok THEN <<"TikTokUploadStrategy">> ELSE <<>>)
    \o <<"DownloadBackgroundStrategy", "TTSGenerationStrategy",
         "TranscriptionStrategy", "VideoCompositionStrategy">>

\* VideoCreatorFactory._build_strategies (video_factory.py, lines 51-73).
BuildStrategies(cfg) ==
    <<"DownloadBackgroundStrategy", "TTSGenerationStrategy",
      "TranscriptionStrategy", "VideoCompositionStrategy">>
    \o (IF cfg.upload_tiktok THEN <<"TikTokUploadStrategy">> ELSE <<>>)

\* The statement of get_video (app.py, lines 60-97) that follows the given
\* one: the audio is merged and removed only if add_audio is set, the video
\* is uploaded only if upload_tiktok is set.
AfterAudio(cfg) == IF cfg.upload_tiktok THEN "upload_to_tiktok" ELSE "return"

StageAfter(stage, cfg) ==
    CASE stage = "download_video" -> "load_model"
      [] stage = "load_model" -> "create_text"
      [] stage = "create_text" -> "text_to_speech"
      [] stage = "text_to_speech" -> "generate_transcription"
      [] stage = "generate_transcription" -> "select_background"
      [] stage = "select_background" -> "integrate_subtitles"
      [] stage = "integrate_subtitles" ->
             (IF cfg.add_audio THEN "merge_video_and_audio" ELSE AfterAudio(cfg))
      [] stage = "merge_video_and_audio" -> "os.remove"
      [] stage = "os.remove" -> AfterAudio(cfg)
      [] stage = "upload_to_tiktok" -> "return"

\* The calls of get_video that touch nothing but the task's own VideoCreator.
OwnStages ==
    {"download_video", "load_model", "create_text", "generate_transcription",
     "select_background", "integrate_subtitles", "upload_to_tiktok"}

\* A get_video coroutine as asyncio.gather receives it (lines 99-101).
NewTask(video_data) ==
    [video_data |-> video_data, next |-> "download_video", trace |-> <<>>,
     status |-> "pending"]

\* video.json with n entries (app.py, line 270).
VideoJson(n) == [k \in 1..n |-> [series |-> "Series", part |-> k]]

\* What the multiselect of lines 272-278 can return: the chosen entries of
\* video.json, each once, in the order they were chosen.
RECURSIVE Selections(_, _)
Selections(entries, n) ==
    IF n = 0 THEN {<<>>}
    ELSE LET shorter == Selections(entries, n - 1)
         IN  shorter \cup
             {Append(sel, e) : sel \in {x \in shorter : Len(x) = n - 1},
                               e \in entries}

DistinctSelections(videos, n) ==
    {sel \in Selections({videos[k] : k \in 1..Len(videos)}, n) :
        /\ sel # <<>>
        /\ \A a, b \in 1..Len(sel) : sel[a] = sel[b] => a = b}

\* Line 99: get_video(video_json[i], ...) for i, name in enumerate(video_num).
TaskVideoData(video_json, video_num, i) == At(video_json, i)

\* Lines 99-100: one coroutine per element of video_num.
GatheredTasks(video_json, video_num) ==
    [k \in 1..Len(video_num) |-> NewTask(TaskVideoData(video_json, video_num, k - 1))]

\* Lines 103-107: results[0] of one result, results[-1] otherwise; each
\* result is the final video of the task's own VideoCreator (line 97).
ReturnedVideo(tasks) == tasks[Len(tasks)].video_data

\* generate_video is called with the entries of video.json and with 1 to
\* MaxVideos of them selected; main has
\* written temp_audio_file.wav if add_audio is set (lines 303-306).
InitApp ==
    /\ pc = "app"
    /\ segments = <<>>
    /\ recognized = <<>>
    /\ original_words = <<>>
    /\ word_timings = <<>>
    /\ all_words = <<>>
    /\ alignment = <<>>
    /\ aligned_count = 0
    /\ log = <<>>
    /\ phrases = <<>>
    /\ srt = <<>>
    /\ ass = <<>>
    /\ \E n \in 1..MaxEntries : \E videos \in {VideoJson(n)} :
       \E selected \in DistinctSelections(videos, MaxVideos) :
       \E audio, upload \in BOOLEAN :
         /\ config = [video_json |-> videos, video_num |-> selected,
                      add_audio |-> audio, upload_tiktok |-> upload]
         /\ task = GatheredTasks(videos, selected)
         /\ exists = [srt_file |-> FALSE, ass_file |-> FALSE, temp_audio |-> audio]
    /\ running = 0
    /\ result = "none"
    /\ strategies = <<>>
    /\ TimeIdle
    /\ PrepareIdle

\* The event loop may run task i: it is the running one, or none is running
\* and i is suspended in its await or is the first task not yet started.
MayRun(i) ==
    /\ result = "none"
    /\ i \in 1..Len(task)
    /\ task[i].status \in {"pending", "suspended", "running"}
    /\ \/ running = i
       \/ /\ running = 0
          /\ \/ task[i].status = "suspended"
             \/ /\ task[i].status = "pending"
                /\ \A j \in 1..(i - 1) : task[j].status # "pending"

\* The task after the call it was about to make.
Advance(t, status) ==
    [t EXCEPT !.next = StageAfter(t.next, config),
              !.trace = Append(t.trace, t.next),
              !.status = status]

\* A call on the task's own VideoCreator (lines 60-81 and 93).
RunStage(i) ==
    /\ MayRun(i)
    /\ task[i].next \in OwnStages
    /\ task' = [task EXCEPT ![i] = Advance(@, "running")]
    /\ running' = i
    /\ UNCHANGED <<serviceVars, exists, result, config, strategies, timeVars, prepareVars>>

\* await video_creator.text_to_speech() (line 72): the task goes on at once
\* or is suspended, and the event loop then runs any task that is ready.
AwaitTextToSpeech(i) ==
    /\ MayRun(i)
    /\ task[i].next = "text_to_speech"
    /\ \E suspends \in BOOLEAN :
         /\ task' = [task EXCEPT
                        ![i] = Advance(@, IF suspends THEN "suspended" ELSE "running")]
         /\ running' = (IF suspends THEN 0 ELSE i)
    /\ UNCHANGED <<serviceVars, exists, result, config, strategies, timeVars, prepareVars>>

\* merge_video_and_audio (line 86; merge_audio_video.py, lines 5-42) reads
\* selected_audio_path with AudioFileClip.
MergeAudio(i) ==
    /\ MayRun(i)
    /\ task[i].next = "merge_video_and_audio"
    /\ exists.temp_audio
    /\ task' = [task EXCEPT ![i] = Advance(@, "running")]
    /\ running' = i
    /\ UNCHANGED <<serviceVars, exists, result, config, strategies, timeVars, prepareVars>>

\* The same call when the audio file is not there: AudioFileClip raises, the
\* exception leaves get_video, and gather passes it on to generate_video and
\* main, which ends the run of the event loop.
MergeAudioFails(i) ==
    /\ MayRun(i)
    /\ task[i].next = "merge_video_and_audio"
    /\ ~exists.temp_audio
    /\ task' = [task EXCEPT ![i] = [@ EXCEPT !.trace = Append(@, "merge_video_and_audio"),
                                              !.status = "failed"]]
    /\ running' = 0
    /\ result' = "raised"
    /\ UNCHANGED <<serviceVars, exists, config, strategies, timeVars, prepareVars>>

\* os.remove(selected_audio_path) (line 89).
RemoveAudio(i) ==
    /\ MayRun(i)
    /\ task[i].next = "os.remove"
    /\ exists.temp_audio
    /\ exists' = [exists EXCEPT !.temp_audio = FALSE]
    /\ task' = [task EXCEPT ![i] = Advance(@, "running")]
    /\ running' = i
    /\ UNCHANGED <<serviceVars, result, config, strategies, timeVars, prepareVars>>

\* return str(video_creator.mp4_final_video) (line 97); generate_video
\* returns when gather has every result (lines 101-107).
ReturnVideo(i) ==
    /\ MayRun(i)
    /\ task[i].next = "return"
    /\ task' = [task EXCEPT ![i] = [@ EXCEPT !.status = "done"]]
    /\ running' = 0
    /\ result' = (IF \A j \in 1..Len(task) : j # i => task[j].status = "done"
                  THEN "returned" ELSE "none")
    /\ UNCHANGED <<serviceVars, exists, config, strategies, timeVars, prepareVars>>

\* _build_strategies is called with the configuration.
BuildStrategiesCall ==
    /\ pc = "app"
    /\ strategies = <<>>
    /\ strategies' = BuildStrategies(config)
    /\ UNCHANGED <<serviceVars, exists, result, config, task, running, timeVars, prepareVars>>

NextApp ==
    \/ \E i \in 1..MaxVideos : RunStage(i)
    \/ \E i \in 1..MaxVideos : AwaitTextToSpeech(i)
    \/ \E i \in 1..MaxVideos : MergeAudio(i)
    \/ \E i \in 1..MaxVideos : MergeAudioFails(i)
    \/ \E i \in 1..MaxVideos : RemoveAudio(i)
    \/ \E i \in 1..MaxVideos : ReturnVideo(i)
    \/ BuildStrategiesCall

SpecApp == InitApp /\ [][NextApp]_vars

\* The calls a task has made, and the place of a call among them.
Made(i, stage) == \E k \in 1..Len(task[i].trace) : task[i].trace[k] = stage

PlaceOf(i, stage) == CHOOSE k \in 1..Len(task[i].trace) : task[i].trace[k] = stage

\* C18: the tasks gathered by generate_video share no mutable state: no two
\* tasks read or delete the same resource (the uploaded temporary audio file
\* included), so every task ends as it would have ended alone, which is
\* without an exception.
C18_TasksIndependent ==
    /\ \A i \in 1..Len(task) : task[i].status # "failed"
    /\ result # "raised"
    /\ \A i, j \in 1..Len(task) :
          (Made(i, "merge_video_and_audio") /\ Made(j, "merge_video_and_audio")) => i = j

\* C21: generate_video starts one task per selected video, the task started
\* for a selected video works on that video's own entry, so the entries
\* processed are the entries selected, each as often as selected, and the
\* path returned is the final video of the last selected entry.
C21_TasksMatchSelection ==
    /\ Len(task) = Len(config.video_num)
    /\ \A i \in 1..Len(task) :
          Made(i, "download_video") => task[i].video_data = config.video_num[i]
    /\ (\A i \in 1..Len(task) : Made(i, "download_video")) =>
          \A k \in 1..Len(config.video_json) :
              Cardinality({i \in 1..Len(task) : task[i].video_data = config.video_json[k]})
                  = Cardinality({i \in 1..Len(config.video_num) :
                                    config.video_num[i] = config.video_json[k]})
    /\ result = "returned" =>
          ReturnedVideo(task) = config.video_num[Len(config.video_num)]

\* The stages of a video generation, in the order the claim gives them.
StageOrder ==
    <<"download_video", "text_to_speech", "generate_transcription",
      "integrate_subtitles", "merge_video_and_audio", "upload_to_tiktok">>

\* C19: _build_strategies returns download, text-to-speech, transcription
\* and composition in this order, followed by the upload exactly when
\* upload_tiktok is set; every get_video task makes its calls in the order
\* download, text-to-speech, transcription, subtitle integration, audio
\* mixing, upload, the mixing exactly when add_audio is set and the upload
\* exactly when upload_tiktok is set.
C19_StageOrder ==
    /\ strategies # <<>> =>
          /\ SubSeq(strategies, 1, 4) =
                 <<"DownloadBackgroundStrategy", "TTSGenerationStrategy",
                   "TranscriptionStrategy", "VideoCompositionStrategy">>
          /\ Len(strategies) = (IF config.upload_tiktok THEN 5 ELSE 4)
          /\ config.upload_tiktok => strategies[5] = "TikTokUploadStrategy"
    /\ \A i \in 1..Len(task) :
          /\ \A k, m \in 1..Len(task[i].trace) :
                 task[i].trace[k] = task[i].trace[m] => k = m
          /\ \A p, q \in 1..Len(StageOrder) :
                 (p < q /\ Made(i, StageOrder[q])) =>
                     \/ /\ Made(i, StageOrder[p])
                        /\ PlaceOf(i, StageOrder[p]) < PlaceOf(i, StageOrder[q])
                     \/ StageOrder[p] = "merge_video_and_audio" /\ ~config.add_audio
          /\ Made(i, "merge_video_and_audio") => config.add_audio
          /\ Made(i, "upload_to_tiktok") => config.upload_tiktok
          /\ task[i].status = "done" =>
                 /\ \A p \in 1..4 : Made(i, StageOrder[p])
                 /\ config.add_audio => Made(i, "merge_video_and_audio")
                 /\ config.upload_tiktok => Made(i, "upload_to_tiktok")

\* A task has mixed the audio and uploaded the video, and the strategies
\* have been built with the upload.
C19_Witness ==
    /\ pc = "app"
    /\ Len(strategies) = 5
    /\ config.add_audio /\ config.upload_tiktok
    /\ task[1].status = "done"
    /\ Made(1, "merge_video_and_audio") /\ Made(1, "upload_to_tiktok")

(***************************************************************************)
(* prepare_background of src/video_prepare.py.                             *)
(***************************************************************************)
\* Lines 13 and 16: int(round(duration, 0)) of a duration given in ms.
RoundedSeconds(ms) == RoundHalfEven(ms, 1000)

\* random.randint(a, b): any whole number from a to b; with b < a the set
\* is empty and the call raises ValueError.
RandInt(a, b) == a..b

\* Lines 20-21: a negative offset is set to 0.
ClampOffset(offset) == IF offset < 0 THEN 0 ELSE offset

\* prepare_background is called for a background video and a narration of
\* 0 to MaxDuration seconds, in steps of half a second.
InitPrepare ==
    /\ pc = "prepare"
    /\ segments = <<>>
    /\ recognized = <<>>
    /\ original_words = <<>>
    /\ word_timings = <<>>
    /\ NoOutputs
    /\ AppIdle
    /\ TimeIdle
    /\ \E v, a \in 0..(2 * MaxDuration) : durations = [video |-> 500 * v, audio |-> 500 * a]
    /\ ss = 0

\* Lines 12-21: the durations are rounded and the offset is drawn.
ChooseOffset ==
    /\ pc = "prepare"
    /\ \E offset \in RandInt(0, RoundedSeconds(durations.video)
                                  - RoundedSeconds(durations.audio)) :
           ss' = ClampOffset(offset)
    /\ pc' = "offset_chosen"
    /\ UNCHANGED <<recognized, segments, original_words, all_words, alignment,
                   aligned_count, log, word_timings, phrases, srt, ass, exists, result,
                   appVars, timeVars, durations>>

\* Line 18 when the rounded video is shorter than the rounded audio:
\* random.randint raises ValueError, which leaves prepare_background.
ChooseOffsetFails ==
    /\ pc = "prepare"
    /\ RandInt(0, RoundedSeconds(durations.video) - RoundedSeconds(durations.audio)) = {}
    /\ pc' = "raised"
    /\ result' = "ValueError"
    /\ UNCHANGED <<recognized, segments, original_words, all_words, alignment,
                   aligned_count, log, word_timings, phrases, srt, ass, exists,
                   appVars, timeVars, prepareVars>>

\* Lines 23-68: ffmpeg cuts the clip from ss on and the path of the output
\* is returned; subprocess.run(check=True) raises if ffmpeg fails.
RunFfmpeg ==
    /\ pc = "offset_chosen"
    /\ \E outcome \in {"returned", "CalledProcessError"} :
         /\ result' = outcome
         /\ pc' = (IF outcome = "returned" THEN "prepared" ELSE "raised")
    /\ UNCHANGED <<recognized, segments, original_words, all_words, alignment,
                   aligned_count, log, word_timings, phrases, srt, ass, exists,
                   appVars, timeVars, prepareVars>>

NextPrepare == ChooseOffset \/ ChooseOffsetFails \/ RunFfmpeg

SpecPrepare == InitPrepare /\ [][NextPrepare]_vars

\* C22: for all durations of the video and of the audio, a video shorter
\* than the audio included, choosing the start offset does not fail, and the
\* offset chosen is at least 0 and at most max(0, video_duration -
\* audio_duration), so that the clip starts inside the background video.
C22_OffsetChosen ==
    /\ result # "ValueError"
    /\ pc \in {"offset_chosen", "prepared"} =>
          /\ 0 <= ss
          /\ ss <= Max({0, RoundedSeconds(durations.video)
                             - RoundedSeconds(durations.audio)})

(***************************************************************************)
(* Properties of the phrase grouper.                                       *)
(***************************************************************************)
Grouped == pc \in {"grouped", "srt_written", "done"}

PhraseWords(ps) == Flat([k \in 1..Len(ps) |-> ps[k].words])

\* The number of words in the phrases before the k-th.
RECURSIVE WordsBefore(_, _)
WordsBefore(ps, k) == IF k <= 1 THEN 0 ELSE WordsBefore(ps, k - 1) + Len(ps[k - 1].words)

\* The input positions (0-based) before which a phrase boundary was placed.
Boundaries == {WordsBefore(phrases, k) : k \in 2..Len(phrases)}

\* C1: for a non-empty input, the words of the returned phrases, concatenated
\* in output order, are the input sequence itself: nothing added, dropped,
\* duplicated, reordered or changed, and the last open phrase is emitted.
C1_PhraseCoverage ==
    (Grouped /\ word_timings # <<>>) => PhraseWords(phrases) = word_timings

C1_Witness ==
    /\ pc = "grouped"
    /\ Len(word_timings) >= 11
    /\ Len(phrases) >= 3
    /\ Len(phrases[Len(phrases)].words) >= 2

\* C8: a phrase boundary stands before input word i (i >= 1) exactly when, for
\* the phrase open at that point, its last word contains one of . , ! ? ; :
\* or word i starts more than 1.0 s after the phrase's current end (exactly
\* 1.0 s does not break) or the phrase already holds 10 words.
C8_BreakRule ==
    Grouped =>
        \A i \in 1..(Len(word_timings) - 1) :
            LET prev == At(word_timings, i - 1)
                cur == At(word_timings, i)
                openStart == Max({0} \cup {b \in Boundaries : b <= i - 1})
                punct == \E k \in 1..Len(prev.word) :
                            prev.word[k] \in {".", ",", "!", "?", ";", ":"}
            IN  (i \in Boundaries) <=>
                    (punct \/ cur.start - prev.end > 1000 \/ i - openStart >= 10)

C8_Witness ==
    /\ pc = "grouped"
    /\ \E i, j \in 1..(Len(word_timings) - 1) :
         /\ At(word_timings, i).start - At(word_timings, i - 1).end = 1000
         /\ i \notin Boundaries
         /\ At(word_timings, j).start - At(word_timings, j - 1).end = 1500
         /\ ~HasPunctuation(At(word_timings, j - 1).word)
         /\ j \in Boundaries

\* C9: no returned phrase holds more than 10 words, and none is empty.
C9_PhraseCap ==
    Grouped =>
        \A k \in 1..Len(phrases) :
            Len(phrases[k].words) >= 1 /\ Len(phrases[k].words) <= 10

C9_Witness ==
    /\ pc = "grouped"
    /\ \E k \in 1..(Len(phrases) - 1) :
         /\ Len(phrases[k].words) = 10
         /\ ~HasPunctuation(phrases[k].words[10].word)
         /\ phrases[k + 1].start - phrases[k].end <= 1000

(***************************************************************************)
(* Properties of _align_with_original_text.                                *)
(***************************************************************************)
Aligned == pc # "transcribed"

RecognizedWords == Flat(recognized)

\* The recognized and the authoritative sequence are equal once normalized.
ExactMatch == CleanAll(WordTexts(RecognizedWords)) = CleanAll(original_words)

\* C2: the pairs of the alignment, in the order they are produced, increase
\* strictly in the recognized index and in the authoritative index: no two
\* pairs cross, and no index of either side occurs in two pairs.
C2_AlignmentMonotone ==
    Aligned =>
        /\ \A k \in 1..(Len(alignment) - 1) :
             /\ alignment[k][1] < alignment[k + 1][1]
             /\ alignment[k][2] < alignment[k + 1][2]
        /\ \A k, m \in 1..Len(alignment) :
             (alignment[k][1] = alignment[m][1] \/ alignment[k][2] = alignment[m][2])
                 => k = m

\* An equal pair whose two indices differ, followed by a pair of a replace run.
C2_Witness ==
    /\ pc = "aligned"
    /\ \E k \in 1..(Len(alignment) - 1) :
         /\ alignment[k][1] # alignment[k][2]
         /\ Clean(At(RecognizedWords, alignment[k][1]).word)
                = Clean(At(original_words, alignment[k][2]))
         /\ Clean(At(RecognizedWords, alignment[k + 1][1]).word)
                # Clean(At(original_words, alignment[k + 1][2]))

\* C3: when the normalized recognized words equal the normalized authoritative
\* tokens, every recognized word is aligned and none is pruned, the i-th word
\* carries the i-th authoritative token (after the first, behind one space),
\* and every start and end is the recognized one.
C3_ExactMatchRewrite ==
    (Aligned /\ ExactMatch) =>
        /\ alignment = [k \in 1..Len(RecognizedWords) |-> <<k - 1, k - 1>>]
        /\ aligned_count = Len(RecognizedWords)
        /\ \A k \in 1..Len(RecognizedWords) :
             /\ all_words[k].word =
                    (IF k = 1 THEN original_words[k] ELSE <<" ">> \o original_words[k])
             /\ all_words[k].start = RecognizedWords[k].start
             /\ all_words[k].end = RecognizedWords[k].end
        /\ \A s \in 1..Len(recognized) : \A k \in 1..Len(recognized[s]) :
             \E m \in 1..Len(segments[s]) :
                 segments[s][m] = At(all_words, recognized[s][k].id)

C3_Witness ==
    /\ pc = "aligned"
    /\ ExactMatch
    /\ Len(RecognizedWords) = 3
    /\ \E k \in 2..3 : RecognizedWords[k].word # all_words[k].word
    /\ recognized[1] # <<>> /\ recognized[2] # <<>>

\* C4: the alignment changes only the text of aligned words: an unaligned
\* word object is left as it was, every word kept in a segment has the start
\* and the end the recognizer gave that word, and the span of a pruned word
\* is given to no neighbour.
C4_TimingsPreserved ==
    Aligned =>
        /\ Len(all_words) = Len(RecognizedWords)
        /\ \A k \in 1..Len(all_words) :
             /\ all_words[k].id = RecognizedWords[k].id
             /\ all_words[k].start = RecognizedWords[k].start
             /\ all_words[k].end = RecognizedWords[k].end
             /\ (k - 1) \notin AlignedIndices(alignment)
                    => all_words[k] = RecognizedWords[k]
        /\ \A s \in 1..Len(segments) : \A m \in 1..Len(segments[s]) :
             LET w == segments[s][m]
             IN  /\ w.start = At(RecognizedWords, w.id).start
                 /\ w.end = At(RecognizedWords, w.id).end

\* A recognizer-only word of positive length between two aligned words is
\* pruned and the word after it keeps its start.
C4_Witness ==
    /\ pc = "aligned"
    /\ alignment = <<<<0, 0>>, <<2, 1>>>>
    /\ RecognizedWords[2].end > RecognizedWords[2].start
    /\ Len(Flat(segments)) = 2
    /\ Flat(segments)[2].start = RecognizedWords[3].start
    /\ Flat(segments)[2].start > Flat(segments)[1].end

\* C5: after the alignment each segment holds exactly those of its own words
\* whose flattened index is aligned, in their order, also when distinct words
\* have the same text and timing.
C5_PruneExact ==
    Aligned =>
        \A s \in 1..Len(segments) :
            segments[s] =
                SelectSeq(SegmentNow(recognized[s], all_words),
                          LAMBDA w : w.id \in AlignedIndices(alignment))

Warnings == SelectSeq(log, LAMBDA e : e.level = "warning")

\* C11: when the transcript has more timed words than the authoritative text
\* has tokens, the method returns with a warning that carries the count of
\* the excess recognized words (the words beyond the authoritative count, or
\* the words left without a pair).
C11_ExcessWarning ==
    (Aligned /\ Len(RecognizedWords) > Len(original_words)) =>
        \E k \in 1..Len(Warnings) :
            \/ Warnings[k].missing = Len(RecognizedWords) - Len(original_words)
            \/ Warnings[k].missing = Len(RecognizedWords) - Len(alignment)

\* The authoritative indices that have no pair in the alignment.
UnpairedTokens ==
    {j \in 0..(Len(original_words) - 1) :
        \A k \in 1..Len(alignment) : alignment[k][2] # j}

\* C12: the method returns with one warning whose count is the number of
\* authoritative tokens without a pair when there is such a token, and with
\* no warning when every authoritative token is paired; the unpaired tokens
\* are the text of no word.
C12_MissingWarning ==
    Aligned =>
        /\ Warnings = (IF UnpairedTokens # {}
                       THEN <<[level |-> "warning",
                               missing |-> Cardinality(UnpairedTokens)]>>
                       ELSE <<>>)
        /\ Cardinality(UnpairedTokens) = Len(original_words) - Len(alignment)
        /\ aligned_count = Len(alignment)
        /\ Cardinality({k \in 1..Len(all_words) :
                            all_words[k] # RecognizedWords[k]}) <= Len(alignment)

\* A token in the middle of the authoritative text is left without a pair.
C12_Witness ==
    /\ pc = "aligned"
    /\ alignment = <<<<0, 0>>, <<1, 2>>>>
    /\ Len(original_words) = 3
    /\ Warnings = <<[level |-> "warning", missing |-> 1]>>
    /\ Len(Flat(segments)) = 2

(***************************************************************************)
(* Properties of the pipeline and of the emitters.                         *)
(***************************************************************************)
RECURSIVE JoinWithSpaces(_)
JoinWithSpaces(tokens) ==
    IF tokens = <<>> THEN <<>>
    ELSE IF Len(tokens) = 1 THEN tokens[1]
    ELSE tokens[1] \o <<" ">> \o JoinWithSpaces(Tail(tokens))

\* The authoritative words match the recognized words one to one and no
\* break condition can fire.
PerfectMatch ==
    /\ RecognizedWords # <<>>
    /\ ExactMatch
    /\ Len(RecognizedWords) <= 10
    /\ \A k \in 1..Len(original_words) : ~HasPunctuation(original_words[k])
    /\ \A k \in 1..Len(RecognizedWords) :
         RecognizedWords[k].end > RecognizedWords[k].start
    /\ \A k \in 2..Len(RecognizedWords) :
         RecognizedWords[k].start - RecognizedWords[k - 1].end <= 1000

\* C7: on a perfect match the aligner, the rewriter, the phrase grouper and
\* the sequential-caption emitter yield one phrase and one caption block,
\* numbered 1, timed from the first word's start to the last word's end, whose
\* text is the authoritative words separated by single spaces.
C7_PerfectMatchOneBlock ==
    (pc = "done" /\ PerfectMatch) =>
        /\ Len(phrases) = 1
        /\ Len(srt) = 1
        /\ srt[1].index = 1
        /\ srt[1].times =
               FormatSrtTime(RecognizedWords[1].start) \o <<" ", "-", "-", ">", " ">>
               \o FormatSrtTime(RecognizedWords[Len(RecognizedWords)].end)
        /\ srt[1].text = JoinWithSpaces(original_words)

\* The authoritative text or the transcript has no word.
EmptyInput == original_words = <<>> \/ RecognizedWords = <<>>

\* The lines of the given kind among the styled-caption lines.
LinesOfKind(lines, kind) == SelectSeq(lines, LAMBDA l : l.kind = kind)

\* C13: with an empty authoritative text or an empty transcript every stage
\* completes: the alignment is empty, every segment ends up without words,
\* the grouper returns no phrase, the sequential-caption emitter writes no
\* block and the styled-caption emitter writes the [Script Info],
\* [V4+ Styles] and [Events] headers and no Dialogue line.
C13_EmptyInputs ==
    EmptyInput =>
        /\ Aligned =>
              /\ alignment = <<>>
              /\ \A s \in 1..Len(segments) : segments[s] = <<>>
        /\ pc \in {"timed", "grouped", "srt_written", "done"} => word_timings = <<>>
        /\ Grouped => phrases = <<>>
        /\ pc \in {"srt_written", "done"} => srt = <<>>
        /\ pc = "done" =>
              /\ LinesOfKind(ass, "dialogue") = <<>>
              /\ \A h \in {"[Script Info]", "[V4+ Styles]", "[Events]"} :
                     \E k \in 1..Len(ass) : ass[k].kind = "text" /\ ass[k].text = h
              /\ Len(LinesOfKind(ass, "style")) = 1

\* A transcript of three words with an empty authoritative text, through
\* every stage.
C13_Witness ==
    /\ pc = "done"
    /\ original_words = <<>>
    /\ Len(RecognizedWords) = 3
    /\ recognized[1] # <<>> /\ recognized[2] # <<>>
    /\ ass = AssHeader

\* C17: _generate_ass writes the fixed header with one style line first and
\* then one Dialogue line per phrase of the grouper, in the order of the
\* phrases: each is timed with the styled time of the phrase's first word's
\* start and of its last word's end and holds one karaoke tag per member
\* word, in the order of the words.
C17_DialoguePerPhrase ==
    pc = "done" =>
        /\ SubSeq(ass, 1, Len(AssHeader)) = AssHeader
        /\ Len(LinesOfKind(AssHeader, "style")) = 1
        /\ Len(ass) = Len(AssHeader) + Len(phrases)
        /\ Len(LinesOfKind(ass, "dialogue")) = Len(phrases)
        /\ phrases = GroupWordsIntoPhrases(word_timings)
        /\ \A k \in 1..Len(phrases) :
             LET line == ass[Len(AssHeader) + k]
                 ws == phrases[k].words
             IN  /\ line.kind = "dialogue"
                 /\ line.start = FormatAssTime(ws[1].start)
                 /\ line.end = FormatAssTime(ws[Len(ws)].end)
                 /\ Len(line.karaoke) = Len(ws)
                 /\ \A m \in 1..Len(ws) : line.karaoke[m].word = ws[m].word

\* Three or more phrases, one of them of several words.
C17_Witness ==
    /\ pc = "done"
    /\ Len(phrases) >= 3
    /\ Len(phrases[2].words) >= 2
    /\ Len(LinesOfKind(ass, "dialogue")) = Len(phrases)
    /\ ass[Len(AssHeader) + 2].end # ass[Len(AssHeader) + 2].start

\* C10: the karaoke tag of every member word of a phrase carries the word's
\* duration in hundredths of a second rounded to the nearest integer,
\* round((end - start) * 100).
C10_KaraokeRounded ==
    pc = "done" =>
        \A k \in 1..Len(phrases) : \A m \in 1..Len(phrases[k].words) :
            LET w == phrases[k].words[m]
            IN  ass[Len(AssHeader) + k].karaoke[m].k
                    = RoundHalfEven((w.end - w.start) * 100, 1000)

====
